---- MODULE Spec2Model ----
(***************************************************************************)
(* Gemini Photo Editor: the upload / validate / submit / interpret         *)
(* pipeline of the App component (src/unnamed/part_000, the variant that   *)
(* checks the API key, and src/App.tsx, the variant that does not) and of  *)
(* the service function editImageWithAI (src/unnamed/part_002).            *)
(*                                                                         *)
(* One step of the model is one task of the browser's event loop: a DOM    *)
(* event handler, a timer callback, a FileReader event or the settling of  *)
(* the generateContent promise, each run together with the promise         *)
(* continuations (microtasks) it schedules and the re-render that follows. *)
(* Strings the code takes apart or puts together (prompt, media type,      *)
(* base64 data, data URI) are sequences of one-character strings; the      *)
(* fixed error messages are plain strings.  A nullable value is <<>> for   *)
(* null and <<v>> for the value v.                                         *)
(***************************************************************************)
EXTENDS Integers, Sequences, FiniteSets, TLC

VARIABLES
    appVersion,         \* which App component is mounted
    apiKey,             \* TRUE iff process.env.API_KEY is set (non-empty)
    originalImageFile,  \* useState<File | null>
    prompt,             \* useState<string>
    editedImageUrl,     \* useState<string | null>
    isLoading,          \* useState<boolean>
    isUploading,        \* useState<boolean>
    runtimeError,       \* useState<string | null> (named error in src/App.tsx)
    timers,             \* pending setTimeout callbacks, each closing over its file
    calls,              \* outstanding editImageWithAI calls, oldest first
    nSubmits,           \* history: handleSubmit runs that called editImageWithAI
    nGenerate,          \* history: ai.models.generateContent invocations
    validated,          \* history: the file the step just taken validated, if any
    settled,            \* history: the call the step just taken settled, if any
    resultFile,         \* history: the file of the call that set editedImageUrl
    submitted,          \* history: TRUE iff the step just taken ran handleSubmit
    download            \* history: what the run of handleDownload just taken did

vars == <<appVersion, apiKey, originalImageFile, prompt, editedImageUrl, isLoading,
          isUploading, runtimeError, timers, calls, nSubmits, nGenerate, validated,
          settled, resultFile, submitted, download>>

uiVars == <<originalImageFile, prompt, editedImageUrl, isLoading, isUploading,
            runtimeError>>

----------------------------------------------------------------------------
(* Bounds of the model *)

MaxSubmits == 2     \* submissions explored in one session
MaxParts == 2       \* parts in a candidate's content

----------------------------------------------------------------------------
(* Nullable values *)

None == <<>>
Some(v) == <<v>>
Get(o) == o[1]

----------------------------------------------------------------------------
(* Strings *)

Whitespace == {" ", "\n"}

RECURSIVE trimStart(_)
trimStart(s) ==
    IF s # <<>> /\ Head(s) \in Whitespace THEN trimStart(Tail(s)) ELSE s

RECURSIVE trimEnd(_)
trimEnd(s) ==
    IF s # <<>> /\ s[Len(s)] \in Whitespace
    THEN trimEnd(SubSeq(s, 1, Len(s) - 1))
    ELSE s

\* String.prototype.trim
trim(s) == trimEnd(trimStart(s))

SeqsUpTo(S, n) == UNION {[1..k -> S] : k \in 0..n}

----------------------------------------------------------------------------
(* Error messages *)

MsgNotConfigured ==
    "API_KEY environment variable not set. Please configure it to use the AI features."
MsgReadFailure ==
    "Failed to read image file. It may be corrupted or in an unsupported format."
MsgSafetyBlocked ==
    "The request was blocked for safety reasons. Please adjust your prompt and try again."
MsgNoImage == "The AI did not return an image. Please try a different prompt."
MsgUnknownService ==
    "An unknown error occurred while communicating with the AI service."
MsgUnknown == "An unknown error occurred."
MsgTooLarge == "Image size exceeds 4MB. Please choose a smaller file."
MsgInvalidType == "Invalid file type. Please upload a PNG, JPG, or WEBP image."
MsgMissingInput == "Please upload an image and enter a prompt."

\* new Error(message)
Error(m) == [isError |-> TRUE, message |-> m]

----------------------------------------------------------------------------
(* Files the user can pick *)

MaxFileSize == 4 * 1024 * 1024

\* mutant of allowedTypes: GIF is let through
allowedTypesWithGif == {"image/png", "image/jpeg", "image/webp", "image/gif"}

allowedTypes == {"image/png", "image/jpeg", "image/webp"}

FileSizes == {MaxFileSize, MaxFileSize + 1}
FileTypes == allowedTypes \cup {"image/gif"}
Files == [size : FileSizes, type : FileTypes]

\* the prompts the user can type: empty, blank, trimmed, and padded on both sides
Prompts == {<<>>, <<" ", "\n">>, <<"a">>, <<" ", "a", "\n">>}

----------------------------------------------------------------------------
(* Responses of the generative-image service *)

PngMime == <<"i", "m", "a", "g", "e", "/", "p", "n", "g">>
WebpMime == <<"i", "m", "a", "g", "e", "/", "w", "e", "b", "p">>
DataA == <<"Q", "Q", "=", "=">>
DataB == <<"Q", "g", "=", "=">>

\* inlineData objects; mimeType is optional in the service's response type
InlineDatas ==
    { [data |-> DataA, mimeType |-> Some(PngMime)],
      [data |-> DataB, mimeType |-> Some(WebpMime)],
      [data |-> DataA, mimeType |-> None] }

TextPart == [inlineData |-> None]
ServiceParts == {TextPart} \cup {[inlineData |-> Some(i)] : i \in InlineDatas}

\* content may be missing, and so may content.parts
Contents ==
    {None, Some([parts |-> None])}
        \cup {Some([parts |-> Some(ps)]) : ps \in SeqsUpTo(ServiceParts, MaxParts)}

FinishReasons == {"STOP", "SAFETY"}
Candidates == [content : Contents, finishReason : FinishReasons]

\* candidates may be missing or empty
Responses ==
    {[candidates |-> None], [candidates |-> Some(<<>>)]}
        \cup {[candidates |-> Some(<<c>>)] : c \in Candidates}

\* what a rejected generateContent promise can carry: an Error of the SDK or
\* of fetch, or a value that is not an Error
Rejections ==
    { Error("Failed to fetch"),
      [isError |-> FALSE, message |-> "aborted"] }

----------------------------------------------------------------------------
(* editImageWithAI, src/unnamed/part_002 *)

Ok(v) == [ok |-> TRUE, value |-> v, error |-> Error("")]
Thrown(e) == [ok |-> FALSE, value |-> <<>>, error |-> e]

\* a template literal renders a missing value as the text undefined
templateText(o) ==
    IF o = None THEN <<"u", "n", "d", "e", "f", "i", "n", "e", "d">> ELSE Get(o)

\* `data:${mimeType};base64,${base64ImageBytes}`
dataUri(mimeType, base64ImageBytes) ==
    <<"d", "a", "t", "a", ":">> \o templateText(mimeType)
        \o <<";", "b", "a", "s", "e", "6", "4", ",">> \o base64ImageBytes

\* response.candidates?.[0]
firstCandidate(response) ==
    IF response.candidates = None \/ Get(response.candidates) = <<>>
    THEN None
    ELSE Some(Get(response.candidates)[1])

\* mutant of firstPart: the first part that carries inlineData, wherever it is
firstInlinePart(response) ==
    LET c == firstCandidate(response) IN
    IF c = None THEN None
    ELSE IF Get(c).content = None THEN None
    ELSE IF Get(Get(c).content).parts = None THEN None
    ELSE LET parts == Get(Get(Get(c).content).parts)
             found == {i \in 1..Len(parts) : parts[i].inlineData # None}
         IN IF parts = <<>> THEN None
            ELSE IF found = {} THEN Some(parts[1])
            ELSE Some(parts[CHOOSE i \in found : \A j \in found : i <= j])

\* response.candidates?.[0]?.content?.parts?.[0]
firstPart(response) ==
    LET c == firstCandidate(response) IN
    IF c = None THEN None
    ELSE IF Get(c).content = None THEN None
    ELSE IF Get(Get(c).content).parts = None THEN None
    ELSE IF Get(Get(Get(c).content).parts) = <<>> THEN None
    ELSE Some(Get(Get(Get(c).content).parts)[1])

\* response.candidates?.[0]?.finishReason === 'SAFETY'
isSafetyBlocked(response) ==
    LET c == firstCandidate(response) IN
    c # None /\ Get(c).finishReason = "SAFETY"

\* mutant of catchServiceError: every caught error is replaced by the generic one
catchServiceErrorWrapAll(error) == Thrown(Error(MsgUnknownService))

\* the catch block around the service call: an Error is re-thrown as it is,
\* anything else is replaced by the generic Error
catchServiceError(error) ==
    IF error.isError THEN Thrown(error) ELSE Thrown(Error(MsgUnknownService))

\* mutant of interpretResponse: the safety signal is looked at before the image
interpretResponseSafetyFirst(response) ==
    LET part == firstPart(response) IN
    IF isSafetyBlocked(response)
    THEN catchServiceError(Error(MsgSafetyBlocked))
    ELSE IF part # None /\ Get(part).inlineData # None
         THEN Ok(dataUri(Get(Get(part).inlineData).mimeType,
                         Get(Get(part).inlineData).data))
         ELSE catchServiceError(Error(MsgNoImage))

\* the rest of the try block once generateContent has resolved
interpretResponse(response) ==
    LET part == firstPart(response) IN
    IF part # None /\ Get(part).inlineData # None
    THEN Ok(dataUri(Get(Get(part).inlineData).mimeType,
                    Get(Get(part).inlineData).data))
    ELSE IF isSafetyBlocked(response)
         THEN catchServiceError(Error(MsgSafetyBlocked))
         ELSE catchServiceError(Error(MsgNoImage))

\* mutant of readFailure: the rejection of fileToBase64 is not caught, so the
\* FileReader's event, which is no Error, reaches the caller
readFailureUnwrapped == Thrown([isError |-> FALSE, message |-> "error"])

\* outcome of the first try block: fileToBase64 rejected
readFailure == Thrown(Error(MsgReadFailure))

\* outcome of the API_KEY check
notConfigured == Thrown(Error(MsgNotConfigured))

\* what settled a call
By(kind, response, thrown) == [kind |-> kind, response |-> response, thrown |-> thrown]

----------------------------------------------------------------------------
(* The App component, src/unnamed/part_000 and src/App.tsx *)

AppVersions == {"part_000", "App.tsx"}

\* part_000 computes isApiConfigured from process.env.API_KEY; App.tsx has no
\* such check, which is the same as finding the key configured
isApiConfigured == IF appVersion = "part_000" THEN apiKey ELSE TRUE

\* part_000: the configuration error, present iff the key is not configured
apiKeyError == IF ~isApiConfigured THEN Some(MsgNotConfigured) ELSE None

\* the error the App displays: apiKeyError || runtimeError in part_000, the
\* error state in App.tsx
displayedError == IF apiKeyError # None THEN apiKeyError ELSE runtimeError

\* const isApiKeyError = !!apiKeyError
isApiKeyError == apiKeyError # None

\* the heading of the error box
errorHeading == IF isApiKeyError THEN "Configuration Error" ELSE "Error"

\* disabled attribute of the file input
fileInputDisabled == isUploading \/ ~isApiConfigured

\* disabled attribute of the prompt textarea
promptDisabled == originalImageFile = None \/ ~isApiConfigured

\* mutant of buttonDisabled: the button stays enabled during a request
buttonDisabledIgnoringLoading ==
    originalImageFile = None \/ trim(prompt) = <<>> \/ ~isApiConfigured

\* disabled attribute of the Generate button
buttonDisabled ==
    originalImageFile = None \/ trim(prompt) = <<>> \/ isLoading \/ ~isApiConfigured

\* mutant of handleImageChange: the previously accepted file is kept
handleImageChangeKeepsFile(file) ==
    IF file = None
    THEN UNCHANGED <<uiVars, timers>>
    ELSE /\ editedImageUrl' = None
         /\ runtimeError' = None
         /\ isUploading' = TRUE
         /\ timers' = Append(timers, Get(file))
         /\ UNCHANGED <<originalImageFile, prompt, isLoading>>

\* the part of handleImageChange that runs in the change event
handleImageChange(file) ==
    IF file = None
    THEN UNCHANGED <<uiVars, timers>>
    ELSE /\ originalImageFile' = None
         /\ editedImageUrl' = None
         /\ runtimeError' = None
         /\ isUploading' = TRUE
         /\ timers' = Append(timers, Get(file))
         /\ UNCHANGED <<prompt, isLoading>>

\* mutant of validateFile: the type is checked before the size
validateFileTypeFirst(file) ==
    IF file.type \notin {"image/png", "image/jpeg", "image/webp"}
    THEN /\ runtimeError' = Some(MsgInvalidType)
         /\ isUploading' = FALSE
         /\ UNCHANGED originalImageFile
    ELSE IF file.size > MaxFileSize
    THEN /\ runtimeError' = Some(MsgTooLarge)
         /\ isUploading' = FALSE
         /\ UNCHANGED originalImageFile
    ELSE /\ originalImageFile' = Some(file)
         /\ isUploading' = FALSE
         /\ UNCHANGED runtimeError

\* mutant of validateFile: the rejections lack their return, so a rejected file
\* is still accepted
validateFileFallThrough(file) ==
    /\ runtimeError' =
          IF file.size > MaxFileSize THEN Some(MsgTooLarge)
          ELSE IF file.type \notin {"image/png", "image/jpeg", "image/webp"}
          THEN Some(MsgInvalidType)
          ELSE runtimeError
    /\ originalImageFile' = Some(file)
    /\ isUploading' = FALSE

\* the setTimeout callback of handleImageChange, for the file it closed over
validateFile(file) ==
    IF file.size > MaxFileSize
    THEN /\ runtimeError' = Some(MsgTooLarge)
         /\ isUploading' = FALSE
         /\ UNCHANGED originalImageFile
    ELSE IF file.type \notin allowedTypes
    THEN /\ runtimeError' = Some(MsgInvalidType)
         /\ isUploading' = FALSE
         /\ UNCHANGED originalImageFile
    ELSE /\ originalImageFile' = Some(file)
         /\ isUploading' = FALSE
         /\ UNCHANGED runtimeError

\* mutant of errorMessage: the message of the caught Error is not used
errorMessageGeneric(e) == MsgUnknown

\* const errorMessage = e instanceof Error ? e.message : 'An unknown error occurred.'
errorMessage(e) == IF e.isError THEN e.message ELSE MsgUnknown

\* mutant of handleSubmitSettle: setIsLoading(false) is not in a finally block
\* and is skipped when the call throws
handleSubmitSettleNoFinally(result) ==
    IF result.ok
    THEN /\ editedImageUrl' = Some(result.value)
         /\ isLoading' = FALSE
         /\ UNCHANGED runtimeError
    ELSE /\ runtimeError' = Some(errorMessage(result.error))
         /\ UNCHANGED <<editedImageUrl, isLoading>>

\* handleSubmit once the awaited editImageWithAI call has settled with result:
\* setEditedImageUrl, or the catch block, and the finally block
handleSubmitSettle(result) ==
    /\ IF result.ok
       THEN /\ editedImageUrl' = Some(result.value)
            /\ UNCHANGED runtimeError
       ELSE /\ runtimeError' = Some(errorMessage(result.error))
            /\ UNCHANGED editedImageUrl
    /\ isLoading' = FALSE

\* mutant of keyCheck: editImageWithAI does not look at API_KEY
keyCheckSkipped == None

\* the API_KEY check that opens editImageWithAI: the Error it throws, if any
keyCheck == IF ~apiKey THEN Some(notConfigured) ELSE None

\* an editImageWithAI call suspended in fileToBase64
NewCall ==
    [ file |-> Get(originalImageFile), prompt |-> prompt, pc |-> "reading",
      reads |-> 1, gens |-> 0, request |-> None ]

\* history of the call a step settled
Settled(call, by, result) == Some([call |-> call, by |-> by, result |-> result])

\* mutant of handleSubmit: the guard against submission when not configured is
\* missing
handleSubmitUnguarded ==
    IF originalImageFile = None \/ trim(prompt) = <<>>
    THEN /\ runtimeError' = Some(MsgMissingInput)
         /\ settled' = None
         /\ UNCHANGED <<originalImageFile, prompt, editedImageUrl, isLoading,
                        isUploading, calls, nSubmits, nGenerate>>
    ELSE /\ nSubmits' = nSubmits + 1
         /\ isLoading' = TRUE
         /\ runtimeError' = None
         /\ editedImageUrl' = None
         /\ calls' = Append(calls, NewCall)
         /\ settled' = None
         /\ UNCHANGED <<originalImageFile, prompt, isUploading, nGenerate>>

\* handleSubmit up to the first suspension of editImageWithAI.  When
\* editImageWithAI throws before it awaits anything, the catch and finally
\* blocks of handleSubmit run in the same task, after the three setters.
handleSubmit ==
    IF ~isApiConfigured
    THEN UNCHANGED <<uiVars, calls, nSubmits, nGenerate>> /\ settled' = None
    ELSE IF originalImageFile = None \/ trim(prompt) = <<>>
    THEN /\ runtimeError' = Some(MsgMissingInput)
         /\ settled' = None
         /\ UNCHANGED <<originalImageFile, prompt, editedImageUrl, isLoading,
                        isUploading, calls, nSubmits, nGenerate>>
    ELSE /\ nSubmits' = nSubmits + 1
         /\ IF keyCheck # None
            THEN /\ runtimeError' = Some(errorMessage(Get(keyCheck).error))
                 /\ editedImageUrl' = None
                 /\ isLoading' = FALSE
                 /\ settled' = Settled([NewCall EXCEPT !.pc = "check", !.reads = 0],
                                       By("noKey", None, None), Get(keyCheck))
                 /\ UNCHANGED calls
            ELSE /\ isLoading' = TRUE
                 /\ runtimeError' = None
                 /\ editedImageUrl' = None
                 /\ calls' = Append(calls, NewCall)
                 /\ settled' = None
         /\ UNCHANGED <<originalImageFile, prompt, isUploading, nGenerate>>

\* the request editImageWithAI hands to ai.models.generateContent (the base64
\* text of the file's bytes is not modelled: the file is named instead)
requestOf(call) ==
    [ inlineData |-> [data |-> call.file, mimeType |-> call.file.type],
      text |-> call.prompt ]

\* calls without the i-th
Without(i) == SubSeq(calls, 1, i - 1) \o SubSeq(calls, i + 1, Len(calls))

\* reader.onload of call i: fileToBase64 resolves and editImageWithAI calls
\* generateContent
generateContent(i) ==
    /\ calls' = [calls EXCEPT ![i] = [@ EXCEPT !.pc = "generating", !.gens = @ + 1,
                                               !.request = Some(requestOf(calls[i]))]]
    /\ nGenerate' = nGenerate + 1
    /\ settled' = None
    /\ UNCHANGED <<uiVars, nSubmits>>

\* mutant of settle: a rejected service call is issued again
settleWithRetry(i, by, result) ==
    IF by.kind = "rejection" /\ calls[i].gens < 2
    THEN /\ calls' = [calls EXCEPT ![i] = [@ EXCEPT !.gens = @ + 1]]
         /\ nGenerate' = nGenerate + 1
         /\ settled' = None
         /\ UNCHANGED <<uiVars, nSubmits>>
    ELSE /\ handleSubmitSettle(result)
         /\ calls' = SubSeq(calls, 1, i - 1) \o SubSeq(calls, i + 1, Len(calls))
         /\ settled' = Some([call |-> calls[i], by |-> by, result |-> result])
         /\ UNCHANGED <<originalImageFile, prompt, isUploading, nSubmits, nGenerate>>

\* the suspended call i settles with result, and handleSubmit resumes
settle(i, by, result) ==
    /\ handleSubmitSettle(result)
    /\ calls' = Without(i)
    /\ settled' = Settled(calls[i], by, result)
    /\ UNCHANGED <<originalImageFile, prompt, isUploading, nSubmits, nGenerate>>

----------------------------------------------------------------------------
(* ImageDisplay, src/unnamed/part_001 *)

\* [a-zA-Z0-9]
AlphaNum ==
    { "a", "b", "c", "d", "e", "f", "g", "h", "i", "j", "k", "l", "m", "n",
      "o", "p", "q", "r", "s", "t", "u", "v", "w", "x", "y", "z", "A", "B",
      "C", "D", "E", "F", "G", "H", "I", "J", "K", "L", "M", "N", "O", "P",
      "Q", "R", "S", "T", "U", "V", "W", "X", "Y", "Z", "0", "1", "2", "3",
      "4", "5", "6", "7", "8", "9" }

\* mutant of SubtypeChars: the class lacks the plus sign
SubtypeCharsNoPlus == AlphaNum \cup {"-", "."}

\* [a-zA-Z0-9-.+]
SubtypeChars == AlphaNum \cup {"-", ".", "+"}

\* the characters . does not match
LineTerminators == {"\n", "\r"}

\* the first position from i on whose character is not in class, or Len(s) + 1
RECURSIVE runEnd(_, _, _)
runEnd(s, i, class) ==
    IF i <= Len(s) /\ s[i] \in class THEN runEnd(s, i + 1, class) ELSE i

\* .*, matches from position i: a comma follows on the same line
commaFollows(s, i) ==
    \E k \in i..Len(s) :
        /\ s[k] = ","
        /\ \A j \in i..(k - 1) : s[j] \notin LineTerminators

\* /data:([a-zA-Z0-9]+\/[a-zA-Z0-9-.+]+).*,.*/ tried at position i: the
\* captured group, if it matches there.  Both classes lack the character that
\* has to follow them, so the greedy runs are the only ones that can match.
matchAt(s, i) ==
    LET t0 == i + 5
        t1 == runEnd(s, t0, AlphaNum)
        u0 == t1 + 1
        u1 == runEnd(s, u0, SubtypeChars)
    IN IF /\ i + 4 <= Len(s)
          /\ SubSeq(s, i, i + 4) = <<"d", "a", "t", "a", ":">>
          /\ t1 > t0
          /\ t1 <= Len(s)
          /\ s[t1] = "/"
          /\ u1 > u0
          /\ commaFollows(s, u1)
       THEN Some(SubSeq(s, t0, u1 - 1))
       ELSE None

\* imageUrl.match(...): the group captured by the leftmost match, if any
mimeTypeMatch(s) ==
    LET found == {i \in 1..Len(s) : matchAt(s, i) # None} IN
    IF found = {} THEN None
    ELSE matchAt(s, CHOOSE i \in found : \A j \in found : i <= j)

\* s.split('/')[1]: what lies between the first and the second slash,
\* undefined when there is no slash
secondOfSplit(s) ==
    LET slashes == {i \in 1..Len(s) : s[i] = "/"} IN
    IF slashes = {} THEN None
    ELSE LET a == CHOOSE i \in slashes : \A j \in slashes : i <= j
             rest == {i \in slashes : i > a}
             b == IF rest = {} THEN Len(s) + 1
                  ELSE CHOOSE i \in rest : \A j \in rest : i <= j
         IN Some(SubSeq(s, a + 1, b - 1))

\* const extension = mimeTypeMatch && mimeTypeMatch.length > 1 ? ... : 'png'
extension(imageUrl) ==
    LET m == mimeTypeMatch(imageUrl) IN
    IF m # None THEN templateText(secondOfSplit(Get(m))) ELSE <<"p", "n", "g">>

\* `genz-hub-edit.${extension}`
downloadName(imageUrl) ==
    <<"g", "e", "n", "z", "-", "h", "u", "b", "-", "e", "d", "i", "t", ".">> \o extension(imageUrl)

\* what a run of handleDownload does
Download(triggered, name) == Some([triggered |-> triggered, name |-> name])

\* handleDownload, for the imageUrl prop
handleDownload(imageUrl) ==
    IF imageUrl = None \/ Get(imageUrl) = <<>>
    THEN download' = Download(FALSE, <<>>)
    ELSE download' = Download(TRUE, downloadName(Get(imageUrl)))

\* the Download button is rendered
downloadButtonShown ==
    editedImageUrl # None /\ Get(editedImageUrl) # <<>> /\ ~isLoading

\* history kept beside editedImageUrl: setEditedImageUrl(null) forgets the
\* file, setEditedImageUrl(resultUrl) records the file handleSubmit passed to
\* editImageWithAI
trackResult ==
    resultFile' =
        IF editedImageUrl' = None THEN None
        ELSE IF settled' # None /\ Get(settled').result.ok
        THEN Some(Get(settled').call.file)
        ELSE resultFile

----------------------------------------------------------------------------
(* The steps of a session *)

\* the user picks a file, or closes the picker without one
SelectFile ==
    /\ ~fileInputDisabled
    /\ \E file \in {None} \cup {Some(f) : f \in Files} : handleImageChange(file)
    /\ validated' = None
    /\ settled' = None
    /\ submitted' = FALSE
    /\ download' = None
    /\ UNCHANGED <<appVersion, apiKey, calls, nSubmits, nGenerate>>
    /\ trackResult

\* the 300 ms timer of handleImageChange fires
TimerFires ==
    /\ timers # <<>>
    /\ validateFile(Head(timers))
    /\ timers' = Tail(timers)
    /\ validated' = Some(Head(timers))
    /\ settled' = None
    /\ submitted' = FALSE
    /\ download' = None
    /\ UNCHANGED <<appVersion, apiKey, prompt, editedImageUrl, isLoading, calls,
                   nSubmits, nGenerate>>
    /\ trackResult

\* the user edits the prompt
EditPrompt ==
    /\ ~promptDisabled
    /\ \E p \in Prompts : prompt' = p
    /\ validated' = None
    /\ settled' = None
    /\ submitted' = FALSE
    /\ download' = None
    /\ UNCHANGED <<appVersion, apiKey, originalImageFile, editedImageUrl, isLoading,
                   isUploading, runtimeError, timers, calls, nSubmits, nGenerate>>
    /\ trackResult

\* the user clicks the Generate button
ClickGenerate ==
    /\ ~buttonDisabled
    /\ nSubmits < MaxSubmits
    /\ handleSubmit
    /\ validated' = None
    /\ submitted' = TRUE
    /\ download' = None
    /\ UNCHANGED <<appVersion, apiKey, timers>>
    /\ trackResult

\* the FileReader of fileToBase64 loads the file
FileReaderLoad ==
    \E i \in 1..Len(calls) :
        /\ calls[i].pc = "reading"
        /\ generateContent(i)
        /\ validated' = None
        /\ submitted' = FALSE
        /\ download' = None
        /\ UNCHANGED <<appVersion, apiKey, timers>>
        /\ trackResult

\* the FileReader of fileToBase64 fails
FileReaderError ==
    \E i \in 1..Len(calls) :
        /\ calls[i].pc = "reading"
        /\ settle(i, By("readError", None, None), readFailure)
        /\ validated' = None
        /\ submitted' = FALSE
        /\ download' = None
        /\ UNCHANGED <<appVersion, apiKey, timers>>
        /\ trackResult

\* the service answers
ServiceResponds ==
    \E i \in 1..Len(calls), response \in Responses :
        /\ calls[i].pc = "generating"
        /\ settle(i, By("response", Some(response), None), interpretResponse(response))
        /\ validated' = None
        /\ submitted' = FALSE
        /\ download' = None
        /\ UNCHANGED <<appVersion, apiKey, timers>>
        /\ trackResult

\* the generateContent promise rejects
ServiceFails ==
    \E i \in 1..Len(calls), e \in Rejections :
        /\ calls[i].pc = "generating"
        /\ settle(i, By("rejection", None, Some(e)), catchServiceError(e))
        /\ validated' = None
        /\ submitted' = FALSE
        /\ download' = None
        /\ UNCHANGED <<appVersion, apiKey, timers>>
        /\ trackResult

\* handleSubmit runs although the key is not configured and the button is
\* therefore disabled: the case its first guard is written for
SubmitNotConfigured ==
    /\ ~isApiConfigured
    /\ handleSubmit
    /\ validated' = None
    /\ submitted' = TRUE
    /\ download' = None
    /\ UNCHANGED <<appVersion, apiKey, timers>>
    /\ trackResult

\* the user clicks the Download button
ClickDownload ==
    /\ downloadButtonShown
    /\ handleDownload(editedImageUrl)
    /\ validated' = None
    /\ settled' = None
    /\ submitted' = FALSE
    /\ UNCHANGED <<appVersion, apiKey, uiVars, timers, calls, nSubmits, nGenerate>>
    /\ trackResult

Init ==
    /\ appVersion \in AppVersions
    /\ apiKey \in BOOLEAN
    /\ originalImageFile = None
    /\ prompt = <<>>
    /\ editedImageUrl = None
    /\ isLoading = FALSE
    /\ isUploading = FALSE
    /\ runtimeError = None
    /\ timers = <<>>
    /\ calls = <<>>
    /\ nSubmits = 0
    /\ nGenerate = 0
    /\ validated = None
    /\ settled = None
    /\ submitted = FALSE
    /\ download = None
    /\ resultFile = None

Next ==
    \/ SelectFile
    \/ TimerFires
    \/ EditPrompt
    \/ ClickGenerate
    \/ FileReaderLoad
    \/ FileReaderError
    \/ ServiceResponds
    \/ ServiceFails
    \/ ClickDownload

Spec == Init /\ [][Next]_vars

\* the session, with handleSubmit also run where its own guard is the only one
SpecDirect == Init /\ [][Next \/ SubmitNotConfigured]_vars

\* the session when the browser runs every timer that is due, every FileReader
\* finishes with load or error, and every generateContent promise is fulfilled
\* or rejected
SpecFair ==
    /\ Spec
    /\ WF_vars(TimerFires)
    /\ WF_vars(FileReaderLoad \/ FileReaderError)
    /\ WF_vars(ServiceResponds \/ ServiceFails)

----------------------------------------------------------------------------
(* handleDownload on its own *)

\* media types a success payload can carry, and ones that yield no match:
\* missing, empty, and without a slash
DownloadMimes ==
    { Some(PngMime), Some(WebpMime),
      Some(<<"i", "m", "a", "g", "e", "/", "j", "p", "e", "g">>),
      Some(<<"i", "m", "a", "g", "e", "/", "s", "v", "g", "+", "x", "m", "l">>),
      Some(<<"i", "m", "a", "g", "e", "/", "x", "-", "i", "c", "o", "n">>),
      None, Some(<<>>), Some(<<"p", "n", "g">>) }

DownloadDatas == {DataA, DataB, <<>>}

\* values of the imageUrl prop: null, the empty string, a blob handle, and the
\* data URIs editImageWithAI builds
DownloadInputs ==
    {None, Some(<<>>), Some(<<"b", "l", "o", "b", ":", "x">>)}
        \cup {Some(dataUri(m, d)) : m \in DownloadMimes, d \in DownloadDatas}

InitDownload ==
    /\ appVersion \in AppVersions
    /\ apiKey \in BOOLEAN
    /\ originalImageFile = None
    /\ prompt = <<>>
    /\ editedImageUrl \in DownloadInputs
    /\ isLoading = FALSE
    /\ isUploading = FALSE
    /\ runtimeError = None
    /\ timers = <<>>
    /\ calls = <<>>
    /\ nSubmits = 0
    /\ nGenerate = 0
    /\ validated = None
    /\ settled = None
    /\ submitted = FALSE
    /\ download = None
    /\ resultFile = None

\* handleDownload runs on the imageUrl prop
RunHandleDownload ==
    /\ handleDownload(editedImageUrl)
    /\ UNCHANGED <<appVersion, apiKey, uiVars, timers, calls, nSubmits, nGenerate,
                   validated, settled, resultFile, submitted>>

SpecDownload == InitDownload /\ [][RunHandleDownload]_vars

----------------------------------------------------------------------------
(* Properties *)

\* C1. Single-flight: in every reachable state at most one editImageWithAI call
\* is outstanding, and no step starts a submission while isLoading is true.
C1_SingleFlight ==
    /\ [](Len(calls) <= 1)
    /\ [][nSubmits' # nSubmits => ~isLoading]_vars

\* a second submission is under way, after the first one has settled
C1_Witness == nSubmits = 2 /\ Len(calls) = 1 /\ isLoading

\* C2. With no API key, editImageWithAI fails with the NotConfigured error at
\* once: every submission settles in the step that starts it, with that error,
\* no call is ever left suspended, and the file is never read nor
\* generateContent called.
C2_NotConfiguredFirst ==
    /\ [](~apiKey =>
            /\ calls = <<>>
            /\ nGenerate = 0
            /\ settled # None =>
                 /\ Get(settled).result.ok = FALSE
                 /\ Get(settled).result.error.isError
                 /\ Get(settled).result.error.message = MsgNotConfigured
                 /\ Get(settled).call.reads = 0
                 /\ Get(settled).call.gens = 0
                 /\ runtimeError = Some(MsgNotConfigured))
    /\ [][(~apiKey /\ nSubmits' # nSubmits) => settled' # None]_vars

\* editImageWithAI was called with no API key
C2_Witness ==
    /\ ~apiKey
    /\ settled # None
    /\ Get(settled).by.kind = "noKey"
    /\ runtimeError = Some(MsgNotConfigured)

\* C3. When the first part of the first candidate carries inlineData, the call
\* succeeds, whatever the finishReason, and the URL displayed is data:, the
\* media type, ;base64, and the data of that part.
C3_ImagePrecedence ==
    (settled # None /\ Get(settled).by.kind = "response") =>
        LET cs == Get(Get(settled).by.response).candidates IN
        (/\ cs # None
         /\ Len(Get(cs)) > 0
         /\ Get(cs)[1].content # None
         /\ Get(Get(cs)[1].content).parts # None
         /\ Len(Get(Get(Get(cs)[1].content).parts)) > 0
         /\ Get(Get(Get(cs)[1].content).parts)[1].inlineData # None)
        => LET img == Get(Get(Get(Get(cs)[1].content).parts)[1].inlineData) IN
           /\ Get(settled).result.ok
           /\ editedImageUrl # None
           /\ img.mimeType # None =>
                Get(editedImageUrl) =
                    <<"d", "a", "t", "a", ":">> \o Get(img.mimeType)
                        \o <<";", "b", "a", "s", "e", "6", "4", ",">> \o img.data

\* a response with an image in its first part and finishReason SAFETY was shown
C3_Witness ==
    /\ settled # None
    /\ Get(settled).by.kind = "response"
    /\ Get(Get(settled).by.response) =
          [candidates |-> Some(<<[content |-> Some([parts |-> Some(<<
               [inlineData |-> Some([data |-> DataB, mimeType |-> Some(WebpMime)])]>>)]),
             finishReason |-> "SAFETY"]>>)]
    /\ editedImageUrl = Some(<<"d", "a", "t", "a", ":", "i", "m", "a", "g", "e", "/",
                               "w", "e", "b", "p", ";", "b", "a", "s", "e", "6", "4",
                               ",", "Q", "g", "=", "=">>)

\* C4. When the response has no image in the first part of its first candidate
\* and that candidate's finishReason is SAFETY, the call fails with the
\* SafetyBlocked message and that message is what runtimeError holds.
C4_SafetyBlocked ==
    (settled # None /\ Get(settled).by.kind = "response") =>
        LET cs == Get(Get(settled).by.response).candidates
            noImage ==
                \/ Get(cs)[1].content = None
                \/ Get(Get(cs)[1].content).parts = None
                \/ Get(Get(Get(cs)[1].content).parts) = <<>>
                \/ Get(Get(Get(cs)[1].content).parts)[1].inlineData = None
        IN (cs # None /\ Len(Get(cs)) > 0 /\ Get(cs)[1].finishReason = "SAFETY"
              /\ noImage)
           => /\ ~Get(settled).result.ok
              /\ Get(settled).result.error.message = MsgSafetyBlocked
              /\ runtimeError = Some(MsgSafetyBlocked)

\* a safety-blocked response whose second part is an image was shown as blocked
C4_Witness ==
    /\ settled # None
    /\ Get(settled).by.kind = "response"
    /\ Get(Get(settled).by.response) =
          [candidates |-> Some(<<[content |-> Some([parts |-> Some(<<TextPart,
               [inlineData |-> Some([data |-> DataA, mimeType |-> Some(PngMime)])]>>)]),
             finishReason |-> "SAFETY"]>>)]
    /\ runtimeError = Some(MsgSafetyBlocked)

\* C5. Every response is interpreted as exactly one of Success, SafetyBlocked
\* and NoImageReturned: Success exactly when the first part of the first
\* candidate carries inlineData, SafetyBlocked exactly when it does not and the
\* first candidate's finishReason is SAFETY, NoImageReturned in every other
\* case, among them no candidates, no content and no parts.
C5_InterpretationOutcomes ==
    (settled # None /\ Get(settled).by.kind = "response") =>
        LET cs == Get(Get(settled).by.response).candidates
            result == Get(settled).result
            hasCandidate == cs # None /\ Len(Get(cs)) > 0
            hasImage ==
                /\ hasCandidate
                /\ Get(cs)[1].content # None
                /\ Get(Get(cs)[1].content).parts # None
                /\ Len(Get(Get(Get(cs)[1].content).parts)) > 0
                /\ Get(Get(Get(cs)[1].content).parts)[1].inlineData # None
            safety == hasCandidate /\ Get(cs)[1].finishReason = "SAFETY"
        IN /\ result.ok <=> hasImage
           /\ (~result.ok /\ result.error.message = MsgSafetyBlocked)
                 <=> (~hasImage /\ safety)
           /\ (~result.ok /\ result.error.message = MsgNoImage)
                 <=> (~hasImage /\ ~safety)
           /\ (~hasImage /\ ~safety) => runtimeError = Some(MsgNoImage)

\* a response whose only image is in the second part was shown as no image
C5_Witness ==
    /\ settled # None
    /\ Get(settled).by.kind = "response"
    /\ Get(Get(settled).by.response) =
          [candidates |-> Some(<<[content |-> Some([parts |-> Some(<<TextPart,
               [inlineData |-> Some([data |-> DataA, mimeType |-> Some(PngMime)])]>>)]),
             finishReason |-> "STOP"]>>)]
    /\ runtimeError = Some(MsgNoImage)

\* C6. A file of more than 4 MiB is rejected with the TooLarge message whatever
\* its media type and does not become originalImageFile; a file of exactly
\* 4 MiB is not rejected as too large; no file of more than 4 MiB is ever held
\* by the App or by an editImageWithAI call.
C6_TooLargeFirst ==
    /\ validated # None =>
         /\ Get(validated).size > 4194304 =>
               (runtimeError = Some(MsgTooLarge) /\ originalImageFile = None)
         /\ Get(validated).size = 4194304 => runtimeError # Some(MsgTooLarge)
    /\ originalImageFile # None => Get(originalImageFile).size <= 4194304
    /\ \A i \in 1..Len(calls) : calls[i].file.size <= 4194304
    /\ settled # None => Get(settled).call.file.size <= 4194304

\* a file of 4 MiB + 1 byte of a type that is not allowed was rejected as too large
C6_Witness ==
    /\ validated = Some([size |-> 4194305, type |-> "image/gif"])
    /\ runtimeError = Some(MsgTooLarge)
    /\ originalImageFile = None

\* C7 as stated. Every file whose media type is outside image/png, image/jpeg,
\* image/webp is rejected with the Invalid file type message.
C7_AnyInvalidTypeRejectedAsType ==
    (validated # None
        /\ Get(validated).type \notin {"image/png", "image/jpeg", "image/webp"})
    => runtimeError = Some(MsgInvalidType)

\* C7 amended. Every file of at most 4 MiB whose media type is outside
\* image/png, image/jpeg, image/webp is rejected with the Invalid file type
\* message and does not become originalImageFile.
C7_SmallInvalidTypeRejectedAsType ==
    (validated # None
        /\ Get(validated).size <= 4194304
        /\ Get(validated).type \notin {"image/png", "image/jpeg", "image/webp"})
    => (runtimeError = Some(MsgInvalidType) /\ originalImageFile = None)

\* a GIF of exactly 4 MiB was rejected for its type
C7_Witness ==
    /\ validated = Some([size |-> 4194304, type |-> "image/gif"])
    /\ runtimeError = Some(MsgInvalidType)

\* C8. originalImageFile is null or a file of at most 4 MiB of an allowed type,
\* and so is the file of every editImageWithAI call, outstanding or just
\* settled, and the media type of every request sent is an allowed one.
C8_OnlyValidFilesSubmitted ==
    LET Valid(f) ==
            /\ f.size <= 4194304
            /\ f.type \in {"image/png", "image/jpeg", "image/webp"}
    IN /\ originalImageFile # None => Valid(Get(originalImageFile))
       /\ \A i \in 1..Len(calls) :
            /\ Valid(calls[i].file)
            /\ calls[i].request # None =>
                 /\ Valid(Get(calls[i].request).inlineData.data)
                 /\ Get(calls[i].request).inlineData.mimeType
                       \in {"image/png", "image/jpeg", "image/webp"}
       /\ settled # None => Valid(Get(settled).call.file)

\* a request is with the service when the user's next file is rejected
C8_Witness ==
    /\ Len(calls) = 1
    /\ calls[1].pc = "generating"
    /\ validated # None
    /\ Get(validated).size > 4194304
    /\ originalImageFile = None

\* C9. A call has issued one generateContent request once its file is read and
\* none before; a call that settles has issued one when the service answered
\* or failed, and none when the key was missing or the read failed; over the
\* session no more requests are issued than submissions have got past reading.
C9_OneRequestPerSubmission ==
    /\ \A i \in 1..Len(calls) :
         calls[i].gens = IF calls[i].pc = "generating" THEN 1 ELSE 0
    /\ settled # None =>
         Get(settled).call.gens =
            IF Get(settled).by.kind \in {"response", "rejection"} THEN 1 ELSE 0
    /\ nGenerate + Cardinality({i \in 1..Len(calls) : calls[i].pc = "reading"})
          <= nSubmits

\* the one request of a submission was rejected and nothing was sent again
C9_Witness ==
    /\ settled # None
    /\ Get(settled).by.kind = "rejection"
    /\ nSubmits = 1
    /\ nGenerate = 1
    /\ calls = <<>>
    /\ ~isLoading

\* C10. When the file cannot be read, the call fails with an Error carrying the
\* ReadFailure message, without having called generateContent, and that
\* message is shown; no other way of settling yields that message.
C10_ReadFailure ==
    /\ MsgReadFailure
          \notin {MsgNotConfigured, MsgSafetyBlocked, MsgNoImage, MsgUnknownService,
                  MsgUnknown, MsgTooLarge, MsgInvalidType, MsgMissingInput}
    /\ settled # None =>
         IF Get(settled).by.kind = "readError"
         THEN /\ ~Get(settled).result.ok
              /\ Get(settled).result.error.isError
              /\ Get(settled).result.error.message = MsgReadFailure
              /\ Get(settled).call.gens = 0
              /\ runtimeError = Some(MsgReadFailure)
         ELSE /\ Get(settled).result.error.message # MsgReadFailure
              /\ runtimeError # Some(MsgReadFailure)

\* a read failure was shown
C10_Witness ==
    /\ settled # None
    /\ Get(settled).by.kind = "readError"
    /\ runtimeError = Some(MsgReadFailure)
    /\ nGenerate = 0

\* C11. When the generateContent promise rejects, the call fails and
\* runtimeError becomes the message of the rejection's cause when that is an
\* Error and the generic service message when it is not; editedImageUrl is
\* null when the submission ends.
C11_TransportFailure ==
    (settled # None /\ Get(settled).by.kind = "rejection") =>
        LET cause == Get(Get(settled).by.thrown) IN
        /\ ~Get(settled).result.ok
        /\ runtimeError # None
        /\ runtimeError =
              Some(IF cause.isError
                   THEN cause.message
                   ELSE "An unknown error occurred while communicating with the AI service.")
        /\ editedImageUrl = None
        /\ ~isLoading

\* a rejection that is no Error was shown with the generic service message
C11_Witness ==
    /\ settled # None
    /\ Get(settled).by.kind = "rejection"
    /\ ~Get(Get(settled).by.thrown).isError
    /\ runtimeError = Some(MsgUnknownService)
    /\ editedImageUrl = None

\* C12. In part_000 with no API key: the file input, the prompt field and the
\* Generate button are disabled, the error displayed is the configuration
\* error under the heading Configuration Error, and no step, a run of
\* handleSubmit included, changes the App's state or starts a call.
C12_NotConfiguredApp ==
    /\ []((appVersion = "part_000" /\ ~apiKey) =>
            /\ fileInputDisabled
            /\ promptDisabled
            /\ buttonDisabled
            /\ displayedError = Some(MsgNotConfigured)
            /\ errorHeading = "Configuration Error"
            /\ calls = <<>>
            /\ nSubmits = 0
            /\ nGenerate = 0)
    /\ [][(appVersion = "part_000" /\ ~apiKey) =>
            UNCHANGED <<uiVars, timers, calls, nSubmits, nGenerate, settled>>]_vars

\* handleSubmit has run with no API key
C12_Witness ==
    /\ appVersion = "part_000"
    /\ ~apiKey
    /\ submitted
    /\ displayedError = Some(MsgNotConfigured)
    /\ runtimeError = None
    /\ ~isLoading

\* C13 as stated. The prompt text of every request handed to generateContent
\* is non-empty and has neither leading nor trailing whitespace.
C13_RequestPromptTrimmed ==
    \A i \in 1..Len(calls) :
        calls[i].request # None =>
            LET text == Get(calls[i].request).text IN
            /\ text # <<>>
            /\ text[1] \notin {" ", "\n"}
            /\ text[Len(text)] \notin {" ", "\n"}

\* C14. A run of handleDownload on a data URI whose media type is image/<sub>
\* names the download genz-hub-edit.<sub>; on a URL from which no media type
\* can be parsed it names it genz-hub-edit.png; on null or the empty string
\* it triggers no download.
C14_DownloadName ==
    download # None =>
        LET Uri(mime, data) ==
                Some(<<"d", "a", "t", "a", ":">> \o mime
                       \o <<";", "b", "a", "s", "e", "6", "4", ",">> \o data)
            Name(ext) ==
                <<"g", "e", "n", "z", "-", "h", "u", "b", "-", "e", "d", "i", "t", ".">>
                    \o ext
            subs == { <<"p", "n", "g">>, <<"j", "p", "e", "g">>, <<"w", "e", "b", "p">>,
                      <<"s", "v", "g", "+", "x", "m", "l">>,
                      <<"x", "-", "i", "c", "o", "n">> }
            unparsed == { <<"u", "n", "d", "e", "f", "i", "n", "e", "d">>, <<>>,
                          <<"p", "n", "g">> }
            datas == { <<"Q", "Q", "=", "=">>, <<"Q", "g", "=", "=">>, <<>> }
        IN /\ (editedImageUrl = None \/ editedImageUrl = Some(<<>>))
                <=> ~Get(download).triggered
           /\ \A sub \in subs, d \in datas :
                editedImageUrl = Uri(<<"i", "m", "a", "g", "e", "/">> \o sub, d)
                   => Get(download).name = Name(sub)
           /\ \A m \in unparsed, d \in datas :
                editedImageUrl = Uri(m, d) => Get(download).name = Name(<<"p", "n", "g">>)
           /\ editedImageUrl = Some(<<"b", "l", "o", "b", ":", "x">>)
                => Get(download).name = Name(<<"p", "n", "g">>)

\* an SVG result was given the name genz-hub-edit.svg+xml
C14_Witness ==
    /\ download # None
    /\ Get(download).triggered
    /\ editedImageUrl =
          Some(<<"d", "a", "t", "a", ":", "i", "m", "a", "g", "e", "/", "s", "v", "g",
                 "+", "x", "m", "l", ";", "b", "a", "s", "e", "6", "4", ",", "Q", "Q",
                 "=", "=">>)
    /\ Get(download).name =
          <<"g", "e", "n", "z", "-", "h", "u", "b", "-", "e", "d", "i", "t", ".", "s",
            "v", "g", "+", "x", "m", "l">>

\* C15. Whenever an edited image and an accepted file are both present, the
\* edited image is the result of a submission made with that file.
C15_ResultOfCurrentImage ==
    (editedImageUrl # None /\ originalImageFile # None) => resultFile = originalImageFile

\* C16. isLoading and isUploading are never both true.
C16_NotLoadingAndUploading == ~(isLoading /\ isUploading)

\* C17. editedImageUrl and runtimeError are never both non-null: a result and
\* an error message are never shown together.
C17_OutcomeExclusive == ~(editedImageUrl # None /\ runtimeError # None)

\* C18. A step in which a file is selected leaves originalImageFile,
\* editedImageUrl and runtimeError null and isUploading true, and does not
\* change prompt or isLoading; a step in which the timer rejects the selected
\* file (over 4 MiB, or not PNG, JPEG or WEBP) leaves originalImageFile null
\* and changes only runtimeError and isUploading.
C18_SelectionResets ==
    [][ /\ Len(timers') > Len(timers) =>
            /\ originalImageFile' = None
            /\ editedImageUrl' = None
            /\ runtimeError' = None
            /\ isUploading' = TRUE
            /\ prompt' = prompt
            /\ isLoading' = isLoading
        /\ ( /\ Len(timers') < Len(timers)
             /\ \/ Head(timers).size > 4194304
                \/ Head(timers).type \notin {"image/png", "image/jpeg", "image/webp"} ) =>
            /\ originalImageFile' = None
            /\ UNCHANGED <<originalImageFile, prompt, editedImageUrl, isLoading>>
            /\ runtimeError' # None
            /\ isUploading' = FALSE
      ]_vars

\* during a request made with an accepted file, another file was selected and
\* has just been rejected
C18_Witness ==
    /\ validated # None
    /\ Get(validated).type = "image/gif"
    /\ isLoading
    /\ originalImageFile = None
    /\ runtimeError = Some(MsgInvalidType)
    /\ ~isUploading

\* C19. When the timer fires and the call returns or fails, isUploading true
\* leads to isUploading false and isLoading true leads to isLoading false.
C19_BusyFlagsClear ==
    /\ isUploading ~> ~isUploading
    /\ isLoading ~> ~isLoading

\* a call that failed in transport has just settled and the flag is clear
C19_Witness ==
    /\ settled # None
    /\ Get(settled).by.kind = "rejection"
    /\ ~isLoading
    /\ ~isUploading

====
